---- MODULE Spec2Model ----
(***************************************************************************)
(* Model of the Blender command wrapper:                                   *)
(*   src/blender.py   Blender (run, run_gist, extract_dict_value),         *)
(*                    BlenderParser._get_argv_after_doubledash             *)
(*   src/src/main.py  Blender (_dry_run, run)                              *)
(*                                                                         *)
(* Python text is a sequence of one-character strings, so that substring,  *)
(* suffix, concatenation and join are computed and not assumed.  Values    *)
(* that are not text (None, an int) are one-element sequences holding a    *)
(* long atom, which no text can equal.                                     *)
(***************************************************************************)
EXTENDS Integers, Sequences, FiniteSets, TLC

VARIABLES
    app,        \* src/blender.py instance: self.app
    app0,       \* the value self.app was given by __init__ (history)
    mapp,       \* src/src/main.py instance: self.app
    call,       \* the arguments of the call in progress / last made
    out,        \* how that call ended: return value or raised exception
    pc,         \* run_gist: position inside the with-block
    gist,       \* run_gist: local `gist`
    text,       \* run_gist: local `text`
    tempExists, \* run_gist: the TemporaryDirectory exists on disk
    tempFiles   \* run_gist: files inside it, name -> content written

vars == <<app, app0, mapp, call, out, pc, gist, text, tempExists, tempFiles>>

(***************************************************************************)
(* Bounds of the model.                                                    *)
(***************************************************************************)
MaxLen  == 4    \* longest script path, in characters
MaxKeys == 2    \* longest key sequence given to extract_dict_value
MaxArgv == 4    \* longest sys.argv

(***************************************************************************)
(* Text.                                                                   *)
(***************************************************************************)
Chars == {"a", ".", "p", "y"}

RECURSIVE StrUpTo(_)
StrUpTo(n) ==
    IF n = 0 THEN {<<>>}
    ELSE LET S == StrUpTo(n - 1)
         IN  S \cup {Append(s, c) : s \in {t \in S : Len(t) = n - 1}, c \in Chars}

None    == <<"<None>">>
IntArg  == <<"<int 7>">>

Sp          == <<" ">>
DotPy       == <<".", "p", "y">>
FlagB       == <<"-", "b">>
FlagP       == <<"-", "P">>
FlagNoAudio == <<"-", "n", "o", "a", "u", "d", "i", "o">>
DashDash    == <<"-", "-">>
Empty       == <<>>

\* isinstance(x, str)
IsStr(x) == x \notin {None, IntArg}

\* Python: sub in s
Contains(s, sub) ==
    \E i \in 0..(Len(s) - Len(sub)) : SubSeq(s, i + 1, i + Len(sub)) = sub

\* Python: sep.join(xs)
RECURSIVE Join(_, _)
Join(xs, sep) ==
    IF xs = <<>> THEN <<>>
    ELSE IF Len(xs) = 1 THEN Head(xs)
    ELSE Head(xs) \o sep \o Join(Tail(xs), sep)

(***************************************************************************)
(* Keyword options: a Python dict, name -> value.  Values are the Python   *)
(* booleans and one value that is not a boolean (the int 1, truthy).       *)
(***************************************************************************)
OptNames   == {"headless", "python", "audio"}
OtherNames == {"verbose"}
KwOrder    == <<"headless", "python", "audio", "verbose">>
BoolVals   == {"True", "False"}
OptVals    == BoolVals \cup {"1"}

Dicts(names, vals) == UNION {[D -> vals] : D \in SUBSET names}

\* kwargs.get(k, default)
KwGet(kw, k, default) == IF k \in DOMAIN kw THEN kw[k] ELSE default

\* Python truth value of an option value
Truthy(v) == v \in {"True", "1"}

\* isinstance(v, bool)
IsBool(v) == v \in BoolVals

(***************************************************************************)
(* Outcomes of a call.                                                     *)
(***************************************************************************)
NoVal  == [t |-> "novalue"]
NoCall == [op |-> "none"]
NoOut  == [kind |-> "none", exc |-> "", spawned |-> <<>>, val |-> NoVal]

\* the call returned v; spawned is the list of commands handed to Popen
Returned(v, cmds) == [kind |-> "return", exc |-> "", spawned |-> cmds, val |-> v]
\* the call raised exc; nothing was handed to Popen
Raised(exc)       == [kind |-> "raise", exc |-> exc, spawned |-> <<>>, val |-> NoVal]
\* what Popen(...).stdout.read().decode("utf8") gives: the process's output
Output == [t |-> "output"]

NoDoc   == [t |-> "nodoc"]
NoFiles == <<>>

(***************************************************************************)
(* The command line, both implementations (the same f-string).             *)
(***************************************************************************)
GuiFlag(kw)     == IF Truthy(KwGet(kw, "headless", "True")) THEN FlagB ELSE Empty
RuntimeFlag(kw) == IF Truthy(KwGet(kw, "python", "True")) THEN FlagP ELSE Empty
AudioFlagInverted(kw) == IF Truthy(KwGet(kw, "audio", "False")) THEN FlagNoAudio ELSE Empty
AudioFlag(kw)   == IF ~Truthy(KwGet(kw, "audio", "False")) THEN FlagNoAudio ELSE Empty

\* if ".py" not in script: script += ".py"
AddSuffix(script) == IF ~Contains(script, DotPy) THEN script \o DotPy ELSE script

\* f"{self.app} {audio} {gui} {runtime} {script} -- {python_args}"
CommandLine(exe, kw, script, python_args) ==
    exe \o Sp \o AudioFlag(kw) \o Sp \o GuiFlag(kw) \o Sp \o RuntimeFlag(kw)
        \o Sp \o script \o Sp \o DashDash \o Sp \o python_args


(***************************************************************************)
(* src/blender.py  Blender.run(script, binary, *args, **kwargs)            *)
(* pos is what the caller passes positionally after the script: its first  *)
(* element binds to `binary`, the rest to *args.                           *)
(***************************************************************************)
T1 == <<"1">>
T2 == <<"2">>
Binaries == {<<"x">>}
ArgLists == {<<>>, <<T1>>, <<T1, T2>>}
Positionals == {<<>>} \cup {<<b>> \o a : b \in Binaries \cup {None}, a \in ArgLists}
Scripts == StrUpTo(MaxLen) \cup {None}

BinaryOf(pos) == IF pos = <<>> THEN None ELSE Head(pos)
ArgsOf(pos)   == IF pos = <<>> THEN <<>> ELSE Tail(pos)

\* if binary is not None: self.app = binary
AppAfter(a, binary) == IF binary # None THEN binary ELSE a

BlenderRunResult(a, script, pos, kw) ==
    IF script = None
    THEN Raised("ValueError")
    ELSE Returned(Output,
            <<CommandLine(AppAfter(a, BinaryOf(pos)), kw, AddSuffix(script),
                          Join(ArgsOf(pos), Sp))>>)

BlenderRun ==
    /\ call = NoCall
    /\ \E script \in Scripts, pos \in Positionals, kw \in Dicts(OptNames, BoolVals) :
        /\ call' = [op |-> "blender.run", script |-> script, pos |-> pos, kw |-> kw]
        /\ app' = AppAfter(app, BinaryOf(pos))
        /\ out' = BlenderRunResult(app, script, pos, kw)
        /\ UNCHANGED <<app0, mapp, pc, gist, text, tempExists, tempFiles>>

(***************************************************************************)
(* src/src/main.py  Blender._dry_run and Blender.run                       *)
(***************************************************************************)
PythonArgs == {<<>>, <<T1>>, <<T1, T2>>, <<T1, IntArg>>}
MainKwargs ==
    {k1 @@ k2 : k1 \in Dicts(OptNames, OptVals), k2 \in Dicts(OtherNames, {"True", "1"})}

\* the first keyword, in call order, whose value is not a bool; "" if none
RECURSIVE FirstNonBool(_, _)
FirstNonBool(kw, order) ==
    IF order = <<>> THEN ""
    ELSE IF Head(order) \in DOMAIN kw /\ ~IsBool(kw[Head(order)]) THEN Head(order)
    ELSE FirstNonBool(kw, Tail(order))

\* _dry_run: the error message, "" when the arguments are accepted
DryRunRecognizedOnly(python_args, kw) ==
    IF \E i \in 1..Len(python_args) : ~IsStr(python_args[i])
    THEN "All Python arguments should be a string."
    ELSE IF FirstNonBool([k \in DOMAIN kw \cap OptNames |-> kw[k]], KwOrder) # ""
    THEN "should be a boolean."
    ELSE ""

DryRun(python_args, kw) ==
    IF \E i \in 1..Len(python_args) : ~IsStr(python_args[i])
    THEN "All Python arguments should be a string."
    ELSE IF FirstNonBool(kw, KwOrder) # ""
    THEN "should be a boolean."
    ELSE ""

MainRunResult(a, script, python_args, kw) ==
    IF DryRun(python_args, kw) # ""
    THEN Raised("ValueError")
    ELSE IF script = None
    THEN Raised("TypeError")    \* ".py" not in None
    ELSE Returned(Output,
            <<CommandLine(a, kw, AddSuffix(script), Join(python_args, Sp))>>)

MainRun ==
    /\ call = NoCall
    /\ \E script \in Scripts, python_args \in PythonArgs, kw \in MainKwargs :
        /\ call' = [op |-> "main.run", script |-> script, pos |-> python_args, kw |-> kw]
        /\ out' = MainRunResult(mapp, script, python_args, kw)
        /\ UNCHANGED <<app, app0, mapp, pc, gist, text, tempExists, tempFiles>>

(***************************************************************************)
(* JSON documents: text, null, or a mapping from keys to documents.        *)
(***************************************************************************)
PyNone  == [t |-> "none"]
Text(s) == [t |-> "text", s |-> s]
Map(m)  == [t |-> "map", m |-> m]

DocKeys == {"f1", "content"}
Leaves  == {Text("hello"), PyNone}
Maps(vals) == {Map(m) : m \in Dicts(DocKeys, vals)}
Docs    == Maps(Leaves \cup Maps(Leaves))

\* a key argument: one text key, or a list of text keys
StrKey(k)   == [k |-> "str", s |-> k]
ListKey(ks) == [k |-> "list", l |-> ks]
LookupKeys  == DocKeys \cup {"missing"}

RECURSIVE KeyLists(_)
KeyLists(n) ==
    IF n = 0 THEN {<<>>}
    ELSE LET S == KeyLists(n - 1)
         IN  S \cup {Append(s, k) : s \in {t \in S : Len(t) = n - 1}, k \in LookupKeys}

KeyArgs == {StrKey(k) : k \in LookupKeys} \cup {ListKey(l) : l \in KeyLists(MaxKeys)}

\* dict.get(k): the value, None when the key is absent
DictGet(d, k) == IF k \in DOMAIN d.m THEN d.m[k] ELSE PyNone

(***************************************************************************)
(* src/blender.py  Blender.extract_dict_value(data, keys)                  *)
(* `data.get` is looked up before `keys[0]` is evaluated: text has no      *)
(* attribute get (AttributeError), an empty list has no element 0          *)
(* (IndexError).                                                           *)
(***************************************************************************)
RECURSIVE extract_dict_value(_, _)
extract_dict_value(data, keys) ==
    IF data.t = "none" THEN Returned(PyNone, <<>>)
    ELSE IF keys.k = "str"
    THEN IF data.t = "map" THEN Returned(DictGet(data, keys.s), <<>>)
         ELSE Raised("AttributeError")
    ELSE IF data.t # "map" THEN Raised("AttributeError")
    ELSE IF keys.l = <<>> THEN Raised("IndexError")
    ELSE extract_dict_value(DictGet(data, Head(keys.l)), ListKey(Tail(keys.l)))

ExtractCall ==
    /\ call = NoCall
    /\ \E data \in Docs, keys \in KeyArgs :
        /\ call' = [op |-> "extract_dict_value", data |-> data, keys |-> keys]
        /\ out' = NoOut
    /\ UNCHANGED <<app, app0, mapp, pc, gist, text, tempExists, tempFiles>>

ExtractReturn ==
    /\ call # NoCall
    /\ call.op = "extract_dict_value"
    /\ out.kind = "none"
    /\ out' = extract_dict_value(call.data, call.keys)
    /\ UNCHANGED <<app, app0, mapp, call, pc, gist, text, tempExists, tempFiles>>

(***************************************************************************)
(* src/blender.py  Blender.run_gist(gid, content)                          *)
(* The body of `with TemporaryDirectory() as temp:` in three steps; every  *)
(* way out of the block goes through TemporaryDirectory.__exit__.          *)
(***************************************************************************)
Gids        == {<<"g">>}
TempDir     == <<"/", "t">>
ContentNone == [k |-> "none"]
ContentArgs == {ContentNone} \cup KeyArgs
OpenMode    == "r"      \* open(fp, "r")

\* fp = f"{temp}/{gid}"
FilePath(gid) == TempDir \o <<"/">> \o gid

\* TemporaryDirectory.__exit__: is the directory still on disk after the
\* block was left with outcome o
TempLeftOnRaise(o) == o.kind = "raise"
TempAfterExit(o) == FALSE

\* lines 170-178: the value bound to `text`, or the exception raised
ResolveText(g, content) ==
    IF content.k = "none" THEN Returned(g, <<>>)
    ELSE IF content.k = "str" THEN Returned(DictGet(g, content.s), <<>>)
    ELSE extract_dict_value(g, content)

GistCall ==
    /\ call = NoCall
    /\ pc = "idle"
    /\ \E gid \in Gids, content \in ContentArgs :
        call' = [op |-> "run_gist", gid |-> gid, content |-> content]
    /\ pc' = "entered"
    /\ tempExists' = TRUE
    /\ tempFiles' = NoFiles
    /\ out' = NoOut
    /\ UNCHANGED <<app, app0, mapp, gist, text>>

\* get_gist returned the decoded JSON document
GistFetched ==
    /\ pc = "entered"
    /\ \E g \in Docs : gist' = g
    /\ pc' = "fetched"
    /\ UNCHANGED <<app, app0, mapp, call, out, text, tempExists, tempFiles>>

\* get_gist raised (urlopen: URLError, loads: JSONDecodeError)
GistFetchFailed ==
    /\ pc = "entered"
    /\ \E e \in {"URLError", "JSONDecodeError"} : out' = Raised(e)
    /\ pc' = "done"
    /\ tempExists' = TempAfterExit(out')
    /\ tempFiles' = NoFiles
    /\ UNCHANGED <<app, app0, mapp, call, gist, text>>

GistResolve ==
    /\ pc = "fetched"
    /\ LET r == ResolveText(gist, call.content)
       IN  IF r.kind = "raise" \/ r.val = PyNone
           THEN /\ out' = IF r.kind = "raise" THEN r ELSE Raised("ValueError")
                /\ pc' = "done"
                /\ tempExists' = TempAfterExit(out')
                /\ tempFiles' = NoFiles
                /\ text' = text
           ELSE /\ text' = r.val
                /\ pc' = "resolved"
                /\ UNCHANGED <<out, tempExists, tempFiles>>
    /\ UNCHANGED <<app, app0, mapp, call, gist>>

\* lines 180-183: open(fp, "r"), writelines(text), return self.run(fp)
GistMaterialize ==
    /\ pc = "resolved"
    /\ out' = IF OpenMode = "r" /\ call.gid \notin DOMAIN tempFiles
              THEN Raised("FileNotFoundError")
              ELSE IF OpenMode = "r"
              THEN Raised("UnsupportedOperation")
              ELSE BlenderRunResult(app, FilePath(call.gid), <<>>, <<>>)
    /\ pc' = "done"
    /\ tempExists' = TempAfterExit(out')
    /\ tempFiles' = NoFiles
    /\ UNCHANGED <<app, app0, mapp, call, gist, text>>

\* the caller has the result (or the exception) of run_gist
GistDone ==
    /\ pc = "done"
    /\ pc' = "idle"
    /\ call' = NoCall
    /\ out' = NoOut
    /\ gist' = NoDoc
    /\ text' = NoDoc
    /\ UNCHANGED <<app, app0, mapp, tempExists, tempFiles>>

(***************************************************************************)
(* src/blender.py  BlenderParser._get_argv_after_doubledash                *)
(***************************************************************************)
ArgvTokens == {"a", "--", "b"}

RECURSIVE Argvs(_)
Argvs(n) ==
    IF n = 0 THEN {<<>>}
    ELSE LET S == Argvs(n - 1)
         IN  S \cup {Append(s, k) : s \in {t \in S : Len(t) = n - 1}, k \in ArgvTokens}

\* list.index(x): the least index (from 0) holding x; the caller checks x is there
Index(xs, x) == CHOOSE i \in 0..(Len(xs) - 1) :
                    xs[i + 1] = x /\ \A j \in 0..(i - 1) : xs[j + 1] # x

\* xs[i:]
SliceFrom(xs, i) == SubSeq(xs, i + 1, Len(xs))

get_argv_after_doubledash_keep(argv) ==
    IF \E i \in 1..Len(argv) : argv[i] = "--"
    THEN SliceFrom(argv, Index(argv, "--"))
    ELSE <<>>

get_argv_after_doubledash(argv) ==
    IF \E i \in 1..Len(argv) : argv[i] = "--"
    THEN SliceFrom(argv, Index(argv, "--") + 1)
    ELSE <<>>     \* except ValueError: return []

ArgvCall ==
    /\ call = NoCall
    /\ \E argv \in Argvs(MaxArgv) :
        /\ call' = [op |-> "_get_argv_after_doubledash", argv |-> argv]
        /\ out' = NoOut
    /\ UNCHANGED <<app, app0, mapp, pc, gist, text, tempExists, tempFiles>>

ArgvReturn ==
    /\ call # NoCall
    /\ call.op = "_get_argv_after_doubledash"
    /\ out.kind = "none"
    /\ out' = Returned(get_argv_after_doubledash(call.argv), <<>>)
    /\ UNCHANGED <<app, app0, mapp, call, pc, gist, text, tempExists, tempFiles>>

(***************************************************************************)
(* Construction: Blender() with the default executable, both files.        *)
(***************************************************************************)
DefaultApp == <<"b", "l">>

Init ==
    /\ app = DefaultApp
    /\ app0 = DefaultApp
    /\ mapp = DefaultApp
    /\ call = NoCall
    /\ out = NoOut
    /\ pc = "idle"
    /\ gist = NoDoc
    /\ text = NoDoc
    /\ tempExists = FALSE
    /\ tempFiles = NoFiles

\* the caller has the result (or the exception) of run; the instance is free
\* for the next call
RunDone ==
    /\ call # NoCall
    /\ call.op \in {"blender.run", "main.run"}
    /\ call' = NoCall
    /\ out' = NoOut
    /\ UNCHANGED <<app, app0, mapp, pc, gist, text, tempExists, tempFiles>>

Next == BlenderRun \/ MainRun \/ RunDone

Spec == Init /\ [][Next]_vars

NextExtract == ExtractCall \/ ExtractReturn
SpecExtract == Init /\ [][NextExtract]_vars

NextGist ==
    GistCall \/ GistFetched \/ GistFetchFailed \/ GistResolve \/ GistMaterialize \/ GistDone
SpecGist == Init /\ [][NextGist]_vars

NextArgv == ArgvCall \/ ArgvReturn
SpecArgv == Init /\ [][NextArgv]_vars

(***************************************************************************)
(* Properties.                                                             *)
(***************************************************************************)
\* s ends with suf
EndsWith(s, suf) ==
    Len(s) >= Len(suf) /\ SubSeq(s, Len(s) - Len(suf) + 1, Len(s)) = suf

\* s starts with pre
StartsWith(s, pre) == Len(s) >= Len(pre) /\ SubSeq(s, 1, Len(pre)) = pre

\* the fields of s between occurrences of the character c, empty fields kept
RECURSIVE Fields(_, _)
Fields(s, c) ==
    IF \A i \in 1..Len(s) : s[i] # c THEN <<s>>
    ELSE LET i == CHOOSE k \in 1..Len(s) : s[k] = c /\ \A j \in 1..(k - 1) : s[j] # c
         IN  <<SubSeq(s, 1, i - 1)>> \o Fields(SubSeq(s, i + 1, Len(s)), c)

\* the script token of a command: the fifth space-separated field
ScriptToken(cmd) == Fields(cmd, " ")[5]

IsRun      == call # NoCall /\ call.op \in {"blender.run", "main.run"}
RunReturned == IsRun /\ out.kind = "return"
\* the executable the instance holds in this state
Exe == IF call.op = "main.run" THEN mapp ELSE app

\* C1: the script token of the command is path + ".py" when the path does not
\* end with ".py", and the path unchanged when it does.
C1_SuffixRule ==
    RunReturned =>
        ScriptToken(out.spawned[1]) =
            IF EndsWith(call.script, DotPy) THEN call.script ELSE call.script \o DotPy

\* the value of an option: the one given, else the documented default
OptionValue(name) ==
    IF name \in DOMAIN call.kw THEN call.kw[name]
    ELSE IF name = "audio" THEN "False" ELSE "True"

\* section 4.1: (headless, python, audio) -> " <audio> <headless> <python> "
FlagTable(h, p, a) ==
    CASE h = "True"  /\ p = "True"  /\ a = "False" ->
            Sp \o FlagNoAudio \o Sp \o FlagB \o Sp \o FlagP \o Sp
      [] h = "True"  /\ p = "True"  /\ a = "True"  -> Sp \o Sp \o FlagB \o Sp \o FlagP \o Sp
      [] h = "True"  /\ p = "False" /\ a = "False" -> Sp \o FlagNoAudio \o Sp \o FlagB \o Sp \o Sp
      [] h = "True"  /\ p = "False" /\ a = "True"  -> Sp \o Sp \o FlagB \o Sp \o Sp
      [] h = "False" /\ p = "True"  /\ a = "False" -> Sp \o FlagNoAudio \o Sp \o Sp \o FlagP \o Sp
      [] h = "False" /\ p = "True"  /\ a = "True"  -> Sp \o Sp \o Sp \o FlagP \o Sp
      [] h = "False" /\ p = "False" /\ a = "False" -> Sp \o FlagNoAudio \o Sp \o Sp \o Sp
      [] h = "False" /\ p = "False" /\ a = "True"  -> Sp \o Sp \o Sp \o Sp

\* the arguments the script receives, one space between two of them
RECURSIVE Spaced(_)
Spaced(xs) ==
    IF Len(xs) = 0 THEN <<>>
    ELSE IF Len(xs) = 1 THEN xs[1]
    ELSE Spaced(SubSeq(xs, 1, Len(xs) - 1)) \o Sp \o xs[Len(xs)]

ExtraArgs == IF call.op = "main.run" THEN call.pos ELSE ArgsOf(call.pos)

\* C2: the command handed to the process runner is exactly
\* "<executable> <audio> <headless> <python> <script> -- <args>", the flags
\* as in the table of the three options (defaults for omitted ones), empty
\* flags not stripped.
C2_CommandFormat ==
    RunReturned =>
        out.spawned =
            << Exe
               \o FlagTable(OptionValue("headless"), OptionValue("python"), OptionValue("audio"))
               \o AddSuffix(call.script) \o Sp \o DashDash \o Sp \o Spaced(ExtraArgs) >>

\* headless=False, python=False, audio=True: three empty flags, four spaces
C2_Witness ==
    /\ RunReturned
    /\ call.op = "blender.run"
    /\ call.kw = [headless |-> "False", python |-> "False", audio |-> "True"]
    /\ call.script = <<"a">>
    /\ ArgsOf(call.pos) = <<T1, T2>>
    /\ out.spawned = << app \o <<" ", " ", " ", " ", "a", ".", "p", "y", " ", "-", "-", " ", "1", " ", "2">> >>

HasNonText   == \E i \in 1..Len(call.pos) : ~IsStr(call.pos[i])
Rejected     == out = Raised("ValueError")

\* C7 as stated: main.py run rejects with ValueError exactly when an extra
\* argument is not text or a recognized option is not a boolean; an
\* unrecognized option never causes rejection.
C7_RejectsOnlyRecognized ==
    (IsRun /\ call.op = "main.run" /\ out.kind # "none") =>
        (Rejected <=>
            (HasNonText \/ \E k \in DOMAIN call.kw \cap OptNames : ~IsBool(call.kw[k])))

\* C7 amended: main.py run rejects with ValueError, nothing spawned, exactly
\* when an extra argument is not text or any keyword option, recognized or
\* not, has a value that is not a boolean.
C7_RejectsAnyNonBool ==
    (IsRun /\ call.op = "main.run" /\ out.kind # "none") =>
        /\ Rejected <=> (HasNonText \/ \E k \in DOMAIN call.kw : ~IsBool(call.kw[k]))
        /\ Rejected => out.spawned = <<>>

\* an unrecognized option with a non-boolean value, everything else valid
C7_Witness ==
    /\ IsRun /\ call.op = "main.run"
    /\ call.kw = [headless |-> "True", audio |-> "False", verbose |-> "1"]
    /\ call.pos = <<T1, T2>>
    /\ call.script = <<"a">>
    /\ Rejected

\* C8: run fails with ValueError and spawns nothing when the script path is
\* null or empty.
C8_RejectsEmptyScript ==
    (IsRun /\ out.kind # "none" /\ call.script \in {None, <<>>}) =>
        (Rejected /\ out.spawned = <<>>)

\* C10: run leaves self.app as constructed, every command starts with that
\* executable, and every positional argument after the script is forwarded
\* after the "--" separator.
C10_AppUnchangedArgsForwarded ==
    /\ app = app0
    /\ (RunReturned /\ call.op = "blender.run") =>
          /\ StartsWith(out.spawned[1], app0 \o Sp)
          /\ EndsWith(out.spawned[1], Sp \o DashDash \o Sp \o Spaced(call.pos))

\* the value reached by looking the keys up in order: the document itself for
\* no keys, null as soon as a lookup is null; NoVal where a key is looked up
\* in text, which the contract leaves open
RECURSIVE Walk(_, _)
Walk(d, ks) ==
    IF ks = <<>> THEN d
    ELSE IF d.t = "none" THEN PyNone
    ELSE IF d.t = "map" THEN Walk(DictGet(d, Head(ks)), Tail(ks))
    ELSE NoVal

\* what a key argument designates in a document
Designated(d, keys) ==
    IF keys.k = "none" THEN d
    ELSE IF keys.k = "str" THEN DictGet(d, keys.s)
    ELSE Walk(d, keys.l)

IsExtract == call # NoCall /\ call.op = "extract_dict_value"

\* C3: extract_dict_value returns document.get(key) for a text key, the value
\* reached by the keys in order (null once a lookup is null) for a key
\* sequence, the document for an empty sequence, and raises nothing.
C3_ExtractContract ==
    (IsExtract /\ out.kind # "none" /\ Designated(call.data, call.keys) # NoVal) =>
        out = Returned(Designated(call.data, call.keys), <<>>)

IsGist == call # NoCall /\ call.op = "run_gist"

C5_TextIsWrittenAndRun ==
    (IsGist /\ pc = "done" /\ gist # NoDoc
        /\ Designated(gist, call.content).t = "text") =>
        /\ out.kind = "return"
        /\ Len(out.spawned) = 1
        /\ ScriptToken(out.spawned[1]) = FilePath(call.gid)

\* C6: when resolution of the content argument does not yield text, run_gist
\* fails with the content-not-found ValueError and spawns nothing.
C6_NoTextIsContentNotFound ==
    (IsGist /\ pc = "done" /\ gist # NoDoc
        /\ Designated(gist, call.content).t # "text") =>
        (out = Raised("ValueError") /\ out.spawned = <<>>)

IsArgv == call # NoCall /\ call.op = "_get_argv_after_doubledash"

\* C9: _get_argv_after_doubledash returns the tokens strictly after the first
\* "--", in order, later "--" kept; without "--" it returns the empty list;
\* it raises nothing.
C9_AfterFirstDoubleDash ==
    (IsArgv /\ out.kind # "none") =>
        /\ out.kind = "return"
        /\ LET a == call.argv
               r == out.val
           IN  IF \A i \in 1..Len(a) : a[i] # "--"
               THEN r = <<>>
               ELSE \E i \in 1..Len(a) :
                        /\ a[i] = "--"
                        /\ \A j \in 1..(i - 1) : a[j] # "--"
                        /\ Len(r) = Len(a) - i
                        /\ \A j \in 1..Len(r) : r[j] = a[i + j]

\* two separators: the second one is part of the result
C9_Witness ==
    /\ IsArgv
    /\ out.kind = "return"
    /\ call.argv = <<"a", "--", "b", "--">>
    /\ out.val = <<"b", "--">>

====
